---------------------------- MODULE Spec2Model ----------------------------
(***************************************************************************)
(* Model of src/bot.py: the language-detection-and-fallback pipeline of    *)
(* the chat relay (handle_message) and the pure helpers it is built from   *)
(* (chunk_text, detect_language, infer_language_from_script,               *)
(* libretranslate_translate, is_text_in_language).                         *)
(*                                                                         *)
(* A text is a sequence of Unicode code points (naturals), so the script   *)
(* ranges of the source are the same numeric ranges here.  A language code *)
(* is a string.  None is the Python None.                                  *)
(***************************************************************************)
EXTENDS Integers, Sequences, FiniteSets, TLC

VARIABLES
    \* ---- one invocation of handle_message ----
    pc,                    \* position of the invocation in handle_message
    user_input,            \* update.message.text or ""
    local_detected,        \* result of detect_language(user_input)
    detected_lang,         \* result of infer_language_from_script
    answer_text,           \* text extracted from the primary response
    resp_lang,             \* what detect() did on the primary answer (line 219)
    translated_query,      \* query used for the pivot request
    eng_answer_text,       \* text extracted from the pivot response
    translated_back,       \* result of the back-translation call
    final_answer_text,
    final_answer_language,
    fallback_used,
    error,                 \* the exception caught at line 377, or None
    calls,                 \* log of the external calls issued, in order
    sent,                  \* log of the messages delivered to the user
    attempts,              \* log of the send operations tried, failed ones too
    message_chunks,        \* chunk_text(format_for_html(final_answer_text))
    idx,                   \* index of the chunk being delivered
    \* ---- harness applying one pure function to one input ----
    h_pc, h_in, h_out,
    \* ---- several invocations on the event loop of run_polling ----
    inv_pc,                \* position of every invocation
    loop_owner             \* the invocation the loop's thread is running, or 0

hm_vars == <<pc, user_input, local_detected, detected_lang, answer_text,
             resp_lang, translated_query, eng_answer_text, translated_back,
             final_answer_text, final_answer_language, fallback_used,
             error, calls, sent, attempts, message_chunks, idx>>
h_vars == <<h_pc, h_in, h_out>>
l_vars == <<inv_pc, loop_owner>>
vars == <<hm_vars, h_vars, l_vars>>

\* Python None where a str is expected; no text contains the code point -1
None == <<-1>>

\* Python None where a language code is expected
NoLang == "None"

-----------------------------------------------------------------------------
(* Bounds of the model *)

\* number of fragments concatenated into a text given to the identifier
MaxFrags == 2

-----------------------------------------------------------------------------
(* Python string primitives on sequences of code points *)

\* str.isspace() for one character
IsSpace(c) ==
    \/ c \in 9..13
    \/ c \in 28..32
    \/ c \in {133, 160, 5760, 8232, 8233, 8239, 8287, 12288}
    \/ c \in 8192..8202

\* s[a:b] with 0-based a, b already clamped to 0..Len(s)
Slice(s, a, b) == IF b <= a THEN <<>> ELSE SubSeq(s, a + 1, b)

\* the least element of a non-empty set of integers
Min(S) == CHOOSE x \in S : \A y \in S : x <= y

\* the greatest element of a non-empty set of integers
Max(S) == CHOOSE x \in S : \A y \in S : y <= x

\* str.lstrip()
LStrip(s) ==
    LET keep == {i \in 1..Len(s) : ~IsSpace(s[i])}
    IN  IF keep = {} THEN <<>> ELSE SubSeq(s, Min(keep), Len(s))

\* str.rstrip()
RStrip(s) ==
    LET keep == {i \in 1..Len(s) : ~IsSpace(s[i])}
    IN  IF keep = {} THEN <<>> ELSE SubSeq(s, 1, Max(keep))

\* str.strip()
Strip(s) == RStrip(LStrip(s))

\* `not text or not text.strip()`
IsBlank(s) == s = <<>> \/ Strip(s) = <<>>

\* pat occurs in s at 0-based offset i
MatchAt(s, pat, i) ==
    /\ i >= 0
    /\ i + Len(pat) <= Len(s)
    /\ \A k \in 1..Len(pat) : s[i + k] = pat[k]

\* re.search of a literal word
Contains(s, pat) == \E i \in 0..Len(s) : MatchAt(s, pat, i)

\* re.search of a character class given as a set of code points
HasCharIn(s, class) == \E i \in 1..Len(s) : s[i] \in class

-----------------------------------------------------------------------------
(* Language identification: detect_language, infer_language_from_script *)

\* outcome of langdetect.detect that stands for LangDetectException
DetectRaises == "raise"

\* the codes langdetect.detect returns in this model
DetectCodes == {"en", "hi", "ta", "zh-cn"}

DetectOutcomes == DetectCodes \cup {DetectRaises}

\* detect_language returning an empty code when the detector fails
detect_language_mut(text, outcome) ==
    IF IsBlank(text) THEN "en"
    ELSE IF outcome = DetectRaises THEN ""
    ELSE outcome

\* lines 112-122
detect_language(text, outcome) ==
    IF IsBlank(text) THEN "en"
    ELSE IF outcome = DetectRaises THEN "en"
    ELSE outcome

Devanagari == 2304..2431
Bengali    == 2432..2559
Gurmukhi   == 2560..2687
Gujarati   == 2688..2815
Oriya      == 2816..2943
Tamil      == 2944..3071
Telugu     == 3072..3199
Kannada    == 3200..3327
Malayalam  == 3328..3455
Cyrillic   == 1024..1279
Arabic     == (1536..1791) \cup (1872..1919)
Kana       == (12352..12447) \cup (12448..12543)
CJK        == 19968..40959
Hangul     == (4352..4607) \cup (12592..12687) \cup (44032..55215)

\* the native word for Marathi, U+092E U+0930 U+093E U+0920 U+0940
WordMarathi == <<2350, 2352, 2366, 2336, 2368>>
\* the two native spellings of Hindi (with virama + na, with anusvara)
WordHindiA == <<2361, 2367, 2344, 2381, 2342, 2368>>
WordHindiB == <<2361, 2367, 2306, 2342, 2368>>

\* infer_language_from_script testing the Hindi spellings before the Marathi
\* word
infer_language_from_script_hindi_first(text, detected) ==
    IF IsBlank(text) THEN "en"
    ELSE LET t == Strip(text) IN
      IF HasCharIn(t, Devanagari) THEN
          IF Contains(t, WordHindiA) \/ Contains(t, WordHindiB) THEN "hi"
          ELSE IF Contains(t, WordMarathi) THEN "mr"
          ELSE IF detected # "en" THEN detected ELSE "hi"
      ELSE IF HasCharIn(t, Bengali)   THEN "bn"
      ELSE IF HasCharIn(t, Gurmukhi)  THEN "pa"
      ELSE IF HasCharIn(t, Gujarati)  THEN "gu"
      ELSE IF HasCharIn(t, Oriya)     THEN "or"
      ELSE IF HasCharIn(t, Tamil)     THEN "ta"
      ELSE IF HasCharIn(t, Telugu)    THEN "te"
      ELSE IF HasCharIn(t, Kannada)   THEN "kn"
      ELSE IF HasCharIn(t, Malayalam) THEN "ml"
      ELSE IF HasCharIn(t, Cyrillic)  THEN "ru"
      ELSE IF HasCharIn(t, Arabic)    THEN "ar"
      ELSE IF HasCharIn(t, Kana)      THEN "ja"
      ELSE IF HasCharIn(t, CJK) THEN
          IF HasCharIn(t, Kana) THEN "ja" ELSE "zh"
      ELSE IF HasCharIn(t, Hangul)    THEN "ko"
      ELSE IF detected # "" /\ detected # "en" THEN detected
      ELSE IF detected # "" THEN detected ELSE "en"

\* infer_language_from_script without the kana test of line 162
infer_language_from_script_mut(text, detected) ==
    IF IsBlank(text) THEN "en"
    ELSE LET t == Strip(text) IN
      IF HasCharIn(t, Devanagari) THEN
          IF Contains(t, WordMarathi) THEN "mr"
          ELSE IF Contains(t, WordHindiA) \/ Contains(t, WordHindiB) THEN "hi"
          ELSE IF detected # "en" THEN detected ELSE "hi"
      ELSE IF HasCharIn(t, Bengali)   THEN "bn"
      ELSE IF HasCharIn(t, Gurmukhi)  THEN "pa"
      ELSE IF HasCharIn(t, Gujarati)  THEN "gu"
      ELSE IF HasCharIn(t, Oriya)     THEN "or"
      ELSE IF HasCharIn(t, Tamil)     THEN "ta"
      ELSE IF HasCharIn(t, Telugu)    THEN "te"
      ELSE IF HasCharIn(t, Kannada)   THEN "kn"
      ELSE IF HasCharIn(t, Malayalam) THEN "ml"
      ELSE IF HasCharIn(t, Cyrillic)  THEN "ru"
      ELSE IF HasCharIn(t, Arabic)    THEN "ar"
      ELSE IF HasCharIn(t, CJK) THEN
          IF HasCharIn(t, Kana) THEN "ja" ELSE "zh"
      ELSE IF HasCharIn(t, Hangul)    THEN "ko"
      ELSE IF detected # "" /\ detected # "en" THEN detected
      ELSE IF detected # "" THEN detected ELSE "en"

infer_language_from_script(text, detected) ==
    IF IsBlank(text) THEN "en"
    ELSE LET t == Strip(text) IN
      IF HasCharIn(t, Devanagari) THEN
          IF Contains(t, WordMarathi) THEN "mr"
          ELSE IF Contains(t, WordHindiA) \/ Contains(t, WordHindiB) THEN "hi"
          ELSE IF detected # "en" THEN detected ELSE "hi"
      ELSE IF HasCharIn(t, Bengali)   THEN "bn"
      ELSE IF HasCharIn(t, Gurmukhi)  THEN "pa"
      ELSE IF HasCharIn(t, Gujarati)  THEN "gu"
      ELSE IF HasCharIn(t, Oriya)     THEN "or"
      ELSE IF HasCharIn(t, Tamil)     THEN "ta"
      ELSE IF HasCharIn(t, Telugu)    THEN "te"
      ELSE IF HasCharIn(t, Kannada)   THEN "kn"
      ELSE IF HasCharIn(t, Malayalam) THEN "ml"
      ELSE IF HasCharIn(t, Cyrillic)  THEN "ru"
      ELSE IF HasCharIn(t, Arabic)    THEN "ar"
      ELSE IF HasCharIn(t, Kana)      THEN "ja"
      ELSE IF HasCharIn(t, CJK) THEN
          IF HasCharIn(t, Kana) THEN "ja" ELSE "zh"
      ELSE IF HasCharIn(t, Hangul)    THEN "ko"
      ELSE IF detected # "" /\ detected # "en" THEN detected
      ELSE IF detected # "" THEN detected ELSE "en"

-----------------------------------------------------------------------------
(* is_text_in_language *)

\* lang.split('-')[0] on the codes of the model
ShortCode(lang) ==
    CASE lang = "zh-cn" -> "zh"
      [] lang = "zh-tw" -> "zh"
      [] OTHER -> lang

\* is_text_in_language comparing the codes without normalising them
is_text_in_language_mut(text, target_lang, outcome) ==
    IF IsBlank(text) THEN FALSE
    ELSE IF outcome = DetectRaises THEN FALSE
    ELSE outcome = target_lang

\* outcome is what langdetect.detect does on the response text
is_text_in_language(text, target_lang, outcome) ==
    IF IsBlank(text) THEN FALSE
    ELSE IF outcome = DetectRaises THEN FALSE
    ELSE ShortCode(outcome) = ShortCode(target_lang)

-----------------------------------------------------------------------------
(* libretranslate_translate *)

\* Python truth value of None or a str
Truthy(v) == v # None /\ v # <<>>

\* Python `a or b`
PyOr(a, b) == IF Truthy(a) THEN a ELSE b

\* What the remote service does with one POST.  kind is one of
\*   "transport"  requests.post raises (connection error)
\*   "timeout"    requests.post raises after the 15 s bound
\*   "status"     resp.raise_for_status() raises (non-2xx)
\*   "nonjson"    resp.json() raises
\*   "list"       the body is JSON but not an object: data.get raises
\*   "object"     the body is a JSON object; a field that is missing
\*                (or null) reads as None through data.get
FailureKinds == {"transport", "timeout", "status", "nonjson", "list"}

Raised == [raised |-> TRUE, value |-> None, posts |-> 1]

Returned(v) == [raised |-> FALSE, value |-> v, posts |-> 1]

\* the statements inside the try block, lines 189-203
TranslateTry(resp) ==
    IF resp.kind \in FailureKinds THEN Raised
    ELSE LET translated == PyOr(PyOr(resp.translatedText, resp.translated_text),
                                resp.text)
         IN  IF translated = None THEN Returned(None) ELSE Returned(translated)

\* libretranslate_translate without its except clause
TranslateExcept_mut(r) == r

\* the except clause, lines 204-206
TranslateExcept(r) == IF r.raised THEN [r EXCEPT !.raised = FALSE, !.value = None] ELSE r

\* The result records whether an exception leaves the function, the value
\* returned and the number of POSTs made.  text, source and target only build
\* the payload and do not influence the control flow.
libretranslate_translate(text, source, target, resp) ==
    TranslateExcept(TranslateTry(resp))

-----------------------------------------------------------------------------
(* chunk_text *)

\* str.rfind(pat, start, end): the highest offset in start..end-Len(pat)
\* where pat occurs, or -1
RFind(s, pat, start, end) ==
    LET e    == IF end > Len(s) THEN Len(s) ELSE end
        hits == {i \in start..(e - Len(pat)) : MatchAt(s, pat, i)}
    IN  IF hits = {} THEN -1 ELSE Max(hits)

NL == 10

\* a cut that looks for a single newline before a double one
split_point_mut(text, limit) ==
    LET a == RFind(text, <<NL>>, 0, limit)
        b == IF a = -1 THEN RFind(text, <<NL, NL>>, 0, limit) ELSE a
    IN  IF b = -1 THEN limit ELSE b

\* the cut position chosen by lines 57-61
split_point(text, limit) ==
    LET a == RFind(text, <<NL, NL>>, 0, limit)
        b == IF a = -1 THEN RFind(text, <<NL>>, 0, limit) ELSE a
    IN  IF b = -1 THEN limit ELSE b

RECURSIVE chunk_text_mut(_, _)
\* chunk_text resuming one character after the cut instead of at the cut
chunk_text_mut(text, limit) ==
    IF Len(text) > limit
    THEN LET sp == split_point(text, limit)
         IN  <<Slice(text, 0, sp)>>
               \o chunk_text_mut(LStrip(Slice(text, sp + 1, Len(text))), limit)
    ELSE <<text>>

RECURSIVE chunk_text(_, _)
chunk_text(text, limit) ==
    IF Len(text) > limit
    THEN LET sp == split_point(text, limit)
         IN  <<Slice(text, 0, sp)>>
               \o chunk_text(LStrip(Slice(text, sp, Len(text))), limit)
    ELSE <<text>>

-----------------------------------------------------------------------------
(* format_for_html, strip_html_tags_for_plaintext *)

AMP  == 38
LT   == 60
GT   == 62
STAR == 42
SP   == 32
CR   == 13
NBSP == 160
BULLET == 8226

\* the literals of the formatter as code points
\* "&amp;"
AMP_ENT == <<38, 97, 109, 112, 59>>
\* "&lt;"
LT_ENT == <<38, 108, 116, 59>>
\* "&gt;"
GT_ENT == <<38, 103, 116, 59>>
\* "<b>"
B_OPEN == <<60, 98, 62>>
\* "</b>"
B_CLOSE == <<60, 47, 98, 62>>
\* "__BOLD_PLACEHOLDER_"
PH_PREFIX == <<95, 95, 66, 79, 76, 68, 95, 80, 76, 65, 67, 69, 72, 79, 76, 68, 69, 82, 95>>

RECURSIVE ReplaceAll(_, _, _)
\* str.replace(pat, rep) for a non-empty pat: leftmost occurrence first, the
\* scan resuming after it
ReplaceAll(s, pat, rep) ==
    LET hits == {i \in 0..Len(s) : MatchAt(s, pat, i)}
    IN  IF hits = {} THEN s
        ELSE LET i == Min(hits)
             IN  Slice(s, 0, i) \o rep
                   \o ReplaceAll(Slice(s, i + Len(pat), Len(s)), pat, rep)

_escape_html_basic(s) ==
    ReplaceAll(ReplaceAll(ReplaceAll(s, <<AMP>>, AMP_ENT), <<LT>>, LT_ENT),
               <<GT>>, GT_ENT)

RECURSIVE Digits(_)
\* str(n) for n >= 0
Digits(n) == IF n < 10 THEN <<48 + n>> ELSE Digits(n \div 10) \o <<48 + (n % 10)>>

\* f"__BOLD_PLACEHOLDER_{idx}__"
Placeholder(k) == PH_PREFIX \o Digits(k) \o <<95, 95>>

\* the offsets at which r"\*\*(.+?)\*\*" (DOTALL) matches in s, as pairs
\* <<i, j>>: opening marker at i, closing marker at j, j the least possible
BoldMatches(s) ==
    {m \in (0..Len(s)) \X (0..Len(s)) :
        /\ MatchAt(s, <<STAR, STAR>>, m[1])
        /\ m[2] >= m[1] + 3
        /\ MatchAt(s, <<STAR, STAR>>, m[2])
        /\ \A j \in (m[1] + 3)..(m[2] - 1) : ~MatchAt(s, <<STAR, STAR>>, j)}

RECURSIVE BoldSub(_, _)
\* re.sub with _bold_repl on the text from which k spans were already taken:
\* the text with placeholders, and the values added to bold_map in order
BoldSub(s, k) ==
    LET ms == BoldMatches(s) IN
    IF ms = {} THEN [text |-> s, bolds |-> <<>>]
    ELSE LET m    == CHOOSE x \in ms : \A y \in ms : x[1] <= y[1]
             rest == BoldSub(Slice(s, m[2] + 2, Len(s)), k + 1)
             inner == Slice(s, m[1] + 2, m[2])
         IN  [text  |-> Slice(s, 0, m[1]) \o Placeholder(k) \o rest.text,
              bolds |-> <<B_OPEN \o _escape_html_basic(inner) \o B_CLOSE>>
                          \o rest.bolds]

RECURSIVE SplitLines(_)
\* str.split("\n")
SplitLines(s) ==
    IF ~HasCharIn(s, {NL}) THEN <<s>>
    ELSE LET i == Min({x \in 1..Len(s) : s[x] = NL})
         IN  <<SubSeq(s, 1, i - 1)>> \o SplitLines(SubSeq(s, i + 1, Len(s)))

RECURSIVE JoinLines(_)
\* "\n".join(lines)
JoinLines(lines) ==
    IF Len(lines) = 0 THEN <<>>
    ELSE IF Len(lines) = 1 THEN lines[1]
    ELSE lines[1] \o <<NL>> \o JoinLines(Tail(lines))

\* str.lstrip(" ")
LStripSpaces(s) ==
    LET keep == {i \in 1..Len(s) : s[i] # SP}
    IN  IF keep = {} THEN <<>> ELSE SubSeq(s, Min(keep), Len(s))

\* one iteration of the loop at lines 85-97
FormatLine(raw_line) ==
    LET content == LStripSpaces(raw_line)
        leading_spaces == Len(raw_line) - Len(content)
        nbsp == [i \in 1..leading_spaces |-> NBSP]
    IN  IF content # <<>> /\ Head(content) \in {STAR, BULLET}
        THEN nbsp \o <<BULLET, SP>> \o _escape_html_basic(LStrip(Tail(content)))
        ELSE nbsp \o _escape_html_basic(content)

RECURSIVE Reinsert(_, _, _)
\* the loop at lines 99-100 over bold_map, from entry k on
Reinsert(result, bolds, k) ==
    IF k > Len(bolds) THEN result
    ELSE Reinsert(ReplaceAll(result, Placeholder(k - 1), bolds[k]), bolds, k + 1)

format_for_html(text) ==
    IF text = <<>> THEN <<>>
    ELSE LET t1 == ReplaceAll(ReplaceAll(text, <<CR, NL>>, <<NL>>), <<CR>>, <<NL>>)
             sub == BoldSub(t1, 0)
             t2 == ReplaceAll(sub.text, <<STAR, STAR>>, <<>>)
             lines == SplitLines(t2)
             out_lines == [i \in 1..Len(lines) |-> FormatLine(lines[i])]
         IN  Reinsert(JoinLines(out_lines), sub.bolds, 1)

RECURSIVE StripTags(_)
\* re.sub(r"<.*?>", "", s): a tag is "<", the fewest characters other than a
\* newline, ">"
StripTags(s) ==
    LET TagEnds(i) == {j \in (i + 1)..Len(s) :
                          s[j] = GT /\ \A k \in (i + 1)..(j - 1) : s[k] # NL}
        starts == {i \in 1..Len(s) : s[i] = LT /\ TagEnds(i) # {}}
    IN  IF starts = {} THEN s
        ELSE LET i == Min(starts)
             IN  SubSeq(s, 1, i - 1)
                   \o StripTags(SubSeq(s, Min(TagEnds(i)) + 1, Len(s)))

RECURSIVE StripBold(_)
\* re.sub(r"</?b>", "", s)
StripBold(s) ==
    LET TagAt(i) == IF MatchAt(s, B_OPEN, i) THEN B_OPEN
                    ELSE IF MatchAt(s, B_CLOSE, i) THEN B_CLOSE ELSE <<>>
        hits == {i \in 0..Len(s) : TagAt(i) # <<>>}
    IN  IF hits = {} THEN s
        ELSE LET i == Min(hits)
             IN  Slice(s, 0, i) \o StripBold(Slice(s, i + Len(TagAt(i)), Len(s)))

strip_html_tags_for_plaintext(html_text) ==
    StripTags(ReplaceAll(StripBold(html_text), <<NBSP>>, <<SP>>))

-----------------------------------------------------------------------------
(* The environment of one handle_message invocation *)

\* inbound texts: no text, a Latin text ("hi"), a Tamil text, a CJK text
UserInputs == {<<>>, <<104, 105>>, <<2980, 2990>>, <<26085, 26412>>}

\* descriptions of the exception an answer_query call raises
ErrorDescs == {"unavailable", "quota"}

\* answer_text values of a response that has an answer: "", " ", "ok",
\* "**z**\n\nb&c def" (three chunks, no one's content inside another's) and
\* "x\n y" (an indented line)
EngineTexts == {<<>>, <<32>>, <<111, 107>>,
                <<42, 42, 122, 42, 42, 10, 10, 98, 38, 99, 32, 100, 101, 102>>,
                <<120, 10, 32, 121>>}

\* what one answer_query call does: it raises, or returns a response whose
\* answer is missing (None) or carries a text
EngineOutcomes ==
    [kind : {"raise"}, desc : ErrorDescs, answer : {None}]
      \cup [kind : {"ok"}, desc : {"-"}, answer : {None} \cup EngineTexts]

\* lines 303-306 and 352-355: the text extracted from a response
ExtractAnswer(outcome) == IF outcome.answer = None THEN <<>> ELSE outcome.answer

\* what the translation service does with one POST; each field of a JSON
\* object is missing/null (None), "" or a text of its own ("A", "B", "C")
Responses ==
    [kind : FailureKinds, translatedText : {None}, translated_text : {None},
     text : {None}]
      \cup [kind : {"object"}, translatedText : {None, <<>>, <<65>>},
            translated_text : {None, <<>>, <<66>>}, text : {None, <<>>, <<67>>}]

\* the keys of preamble_map, lines 251-260
PreambleLangs == {"en", "hi", "mr", "ar", "ru", "zh", "ja", "es"}

\* preamble_map.get(lang, preamble_map["en"]), named by its key
PreambleFor(lang) == IF lang \in PreambleLangs THEN lang ELSE "en"

\* in the log of calls: the call raised
Raise == <<-2>>

\* an entry of the log of calls: the request of an answer_query call (query
\* text, preamble, answer_language_code) and what came back
AnswerCall(query, lang, ret) ==
    [svc |-> "answer", text |-> query, source |-> PreambleFor(lang),
     target |-> lang, ret |-> ret]

\* an entry of the log of calls: the arguments of a libretranslate_translate
\* call and what it returned
TranslateCall(text, source, target, ret) ==
    [svc |-> "translate", text |-> text, source |-> source, target |-> target,
     ret |-> ret]

\* what a call of the answer engine leaves in the log
AnswerRet(outcome) ==
    IF outcome.kind = "raise" THEN Raise ELSE ExtractAnswer(outcome)

\* what a call of the translator leaves in the log
TranslateRet(r) == IF r.raised THEN Raise ELSE r.value

\* "⚠️ Sorry, I couldn't generate an answer." (line 359), abbreviated "!S"
PivotPlaceholder == <<33, 83>>
\* "⚠️ No answer could be generated." (line 388), abbreviated "!N"
LastResortPlaceholder == <<33, 78>>

\* the limit chunk_text is called with at line 402 (4000), scaled down
ChunkLimit == 8

\* a message the transport delivered to the user
Msg(op, kind, body, desc, mode) ==
    [op |-> op, kind |-> kind, body |-> body, desc |-> desc, mode |-> mode]

\* one send operation tried: the message, the chunk it carries (0 when it
\* carries no single chunk) and whether the transport accepted it
Attempt(m, i, ok) == [msg |-> m, chunk |-> i, ok |-> ok]

\* "Answer (Part "
ANSWER_PART == <<65, 110, 115, 119, 101, 114, 32, 40, 80, 97, 114, 116, 32>>
\* " of "
OF_ == <<32, 111, 102, 32>>
\* "):"
CLOSE_PAREN == <<41, 58>>
\* f"<b>Answer (Part {i} of {n}):</b>\n"
Header(i, n) ==
    B_OPEN \o ANSWER_PART \o Digits(i) \o OF_ \o Digits(n) \o CLOSE_PAREN
      \o B_CLOSE \o <<NL>>

-----------------------------------------------------------------------------
(* The decisions of handle_message *)

\* line 309: the acceptance test of the primary answer
Accepts(answer, lang, seen) ==
    answer # <<>> /\ is_text_in_language(answer, lang, seen)

\* the query translated whatever the detected language
NeedsQueryTranslation_mut(lang) == TRUE

\* line 319: the query is translated unless the detected language is English
NeedsQueryTranslation(lang) == lang # "en"

\* the retry made only when the first translation returned None
NeedsAutoRetry_none(tq) == tq = None

\* the retry made whatever the first translation returned
NeedsAutoRetry_mut(tq) == TRUE

\* lines 322 and 325: `if not translated_query`
NeedsAutoRetry(tq) == ~Truthy(tq)

\* the pivot path leaving the text empty when the pivot answer is empty
PivotEmptyResult_mut(lang) == [text |-> <<>>, lang |-> lang]

\* lines 357-360: the pivot answer is empty
PivotEmptyResult(lang) == [text |-> PivotPlaceholder, lang |-> lang]

\* line 363: the English answer is translated back unless English was detected
NeedsBackTranslation(lang) == lang # "en"

\* the English text labelled with the detected language when the
\* back-translation fails
BackResult_mut(tb, eng, lang) ==
    IF Truthy(tb) THEN [text |-> tb, lang |-> lang]
    ELSE [text |-> eng, lang |-> lang]

\* lines 366-372: the outcome of the back-translation decides the final pair
BackResult(tb, eng, lang) ==
    IF Truthy(tb) THEN [text |-> tb, lang |-> lang]
    ELSE [text |-> eng, lang |-> "en"]

\* an error message that leaves the exception's description out
ErrorMsg_mut(op, e) == Msg(op, "error", <<>>, "-", "plain")

\* lines 381 and 383: the error message carries the exception's description
ErrorMsg(op, e) == Msg(op, "error", <<>>, e, "plain")

-----------------------------------------------------------------------------
(* handle_message, one invocation *)

HMInit ==
    /\ pc = "start"
    /\ user_input \in UserInputs
    /\ local_detected = NoLang
    /\ detected_lang = NoLang
    /\ answer_text = None
    /\ resp_lang = NoLang
    /\ translated_query = None
    /\ eng_answer_text = None
    /\ translated_back = None
    /\ final_answer_text = None
    /\ final_answer_language = NoLang
    /\ fallback_used = FALSE
    /\ error = NoLang
    /\ calls = <<>>
    /\ sent = <<>>
    /\ attempts = <<>>
    /\ message_chunks = <<>>
    /\ idx = 0

\* the harness is not used by handle_message
HOff == h_pc = "off" /\ h_in = <<>> /\ h_out = <<>>

\* the event loop is not modelled where one invocation is followed alone
LOff == inv_pc = <<>> /\ loop_owner = 0

Init == HMInit /\ HOff /\ LOff

\* line 243: the "thinking" reply; a failure is not caught
SendThinking ==
    /\ pc = "start"
    /\ \E ok \in BOOLEAN :
         LET m == Msg("reply", "thinking", <<>>, "-", "plain")
         IN  /\ attempts' = Append(attempts, Attempt(m, 0, ok))
             /\ IF ok
                THEN /\ sent' = Append(sent, m)
                     /\ pc' = "detect"
                ELSE /\ sent' = sent
                     /\ pc' = "crashed"
    /\ UNCHANGED <<user_input, local_detected, detected_lang, answer_text,
                   resp_lang,
                   translated_query, eng_answer_text, translated_back,
                   final_answer_text, final_answer_language, fallback_used,
                   error, calls, message_chunks, idx, h_vars, l_vars>>

\* lines 246-247
DetectLanguage ==
    /\ pc = "detect"
    /\ \E outcome \in DetectOutcomes :
         LET d == detect_language(user_input, outcome)
         IN  /\ local_detected' = d
             /\ detected_lang' = infer_language_from_script(user_input, d)
    /\ pc' = "primary"
    /\ UNCHANGED <<user_input, answer_text, resp_lang, translated_query,
                   eng_answer_text, translated_back, final_answer_text, final_answer_language,
                   fallback_used, error, calls, sent, attempts, message_chunks, idx,
                   h_vars, l_vars>>

\* lines 300-316 and 328-329: the primary call and the acceptance test
PrimaryCall ==
    /\ pc = "primary"
    /\ \E outcome \in EngineOutcomes, seen \in DetectOutcomes :
         /\ calls' = Append(calls, AnswerCall(user_input, detected_lang,
                                              AnswerRet(outcome)))
         /\ IF outcome.kind = "raise"
            THEN /\ error' = outcome.desc
                 /\ pc' = "report_edit"
                 /\ UNCHANGED <<answer_text, resp_lang, final_answer_text,
                                final_answer_language, fallback_used,
                                translated_query>>
            ELSE LET a == ExtractAnswer(outcome) IN
                 /\ answer_text' = a
                 /\ resp_lang' = IF IsBlank(a) THEN NoLang ELSE seen
                 /\ error' = error
                 /\ IF Accepts(a, detected_lang, seen)
                    THEN /\ final_answer_text' = a
                         /\ final_answer_language' = detected_lang
                         /\ pc' = "format"
                         /\ UNCHANGED <<fallback_used, translated_query>>
                    ELSE /\ fallback_used' = TRUE
                         /\ UNCHANGED <<final_answer_text, final_answer_language>>
                         /\ IF NeedsQueryTranslation(detected_lang)
                            THEN pc' = "translate_query" /\ UNCHANGED translated_query
                            ELSE pc' = "pivot" /\ translated_query' = user_input
    /\ UNCHANGED <<user_input, local_detected, detected_lang, eng_answer_text,
                   translated_back, sent, attempts, message_chunks, idx, h_vars, l_vars>>

\* lines 320-322: translate the query with source = detected_lang
TranslateQuery ==
    /\ pc = "translate_query"
    /\ \E resp \in Responses :
         LET r == libretranslate_translate(user_input, detected_lang, "en", resp)
         IN  /\ calls' = Append(calls, TranslateCall(user_input, detected_lang,
                                                     "en", TranslateRet(r)))
             /\ IF r.raised
                THEN /\ error' = "translate"
                     /\ pc' = "report_edit"
                     /\ UNCHANGED translated_query
                ELSE /\ translated_query' = r.value
                     /\ error' = error
                     /\ pc' = IF NeedsAutoRetry(r.value) THEN "translate_auto"
                              ELSE "pivot"
    /\ UNCHANGED <<user_input, local_detected, detected_lang, answer_text,
                   resp_lang,
                   eng_answer_text, translated_back, final_answer_text,
                   final_answer_language, fallback_used, sent, attempts, message_chunks,
                   idx, h_vars, l_vars>>

\* lines 322-327: the retry with source = "auto", then the original query
TranslateQueryAuto ==
    /\ pc = "translate_auto"
    /\ \E resp \in Responses :
         LET r == libretranslate_translate(user_input, "auto", "en", resp)
         IN  /\ calls' = Append(calls, TranslateCall(user_input, "auto", "en",
                                                     TranslateRet(r)))
             /\ IF r.raised
                THEN /\ error' = "translate"
                     /\ pc' = "report_edit"
                     /\ UNCHANGED translated_query
                ELSE /\ translated_query' =
                           IF NeedsAutoRetry(r.value) THEN user_input ELSE r.value
                     /\ error' = error
                     /\ pc' = "pivot"
    /\ UNCHANGED <<user_input, local_detected, detected_lang, answer_text,
                   resp_lang,
                   eng_answer_text, translated_back, final_answer_text,
                   final_answer_language, fallback_used, sent, attempts, message_chunks,
                   idx, h_vars, l_vars>>

\* lines 332-375 but the back-translation call: the pivot call
PivotCall ==
    /\ pc = "pivot"
    /\ \E outcome \in EngineOutcomes :
         /\ calls' = Append(calls, AnswerCall(translated_query, "en",
                                              AnswerRet(outcome)))
         /\ IF outcome.kind = "raise"
            THEN /\ error' = outcome.desc
                 /\ pc' = "report_edit"
                 /\ UNCHANGED <<eng_answer_text, final_answer_text,
                                final_answer_language>>
            ELSE LET a == ExtractAnswer(outcome) IN
                 /\ eng_answer_text' = a
                 /\ error' = error
                 /\ IF a = <<>>
                    THEN /\ final_answer_text' = PivotEmptyResult(detected_lang).text
                         /\ final_answer_language' = PivotEmptyResult(detected_lang).lang
                         /\ pc' = "format"
                    ELSE IF NeedsBackTranslation(detected_lang)
                    THEN /\ pc' = "back_translate"
                         /\ UNCHANGED <<final_answer_text, final_answer_language>>
                    ELSE /\ final_answer_text' = a
                         /\ final_answer_language' = "en"
                         /\ pc' = "format"
    /\ UNCHANGED <<user_input, local_detected, detected_lang, answer_text,
                   resp_lang,
                   translated_query, translated_back, fallback_used, sent, attempts,
                   message_chunks, idx, h_vars, l_vars>>

\* lines 365-372
BackTranslate ==
    /\ pc = "back_translate"
    /\ \E resp \in Responses :
         LET r == libretranslate_translate(eng_answer_text, "en", detected_lang,
                                           resp)
         IN  /\ calls' = Append(calls, TranslateCall(eng_answer_text, "en",
                                                     detected_lang,
                                                     TranslateRet(r)))
             /\ IF r.raised
                THEN /\ error' = "translate"
                     /\ pc' = "report_edit"
                     /\ UNCHANGED <<translated_back, final_answer_text,
                                    final_answer_language>>
                ELSE /\ translated_back' = r.value
                     /\ error' = error
                     /\ pc' = "format"
                     /\ LET res == BackResult(r.value, eng_answer_text, detected_lang)
                        IN  /\ final_answer_text' = res.text
                            /\ final_answer_language' = res.lang
    /\ UNCHANGED <<user_input, local_detected, detected_lang, answer_text,
                   resp_lang,
                   translated_query, eng_answer_text, fallback_used, sent, attempts,
                   message_chunks, idx, h_vars, l_vars>>

\* lines 380-382: report the error by editing the "thinking" message
ReportErrorEdit ==
    /\ pc = "report_edit"
    /\ \E ok \in BOOLEAN :
         /\ attempts' = Append(attempts, Attempt(ErrorMsg("edit", error), 0, ok))
         /\ IF ok
            THEN /\ sent' = Append(sent, ErrorMsg("edit", error))
                 /\ pc' = "done"
            ELSE /\ sent' = sent
                 /\ pc' = "report_reply"
    /\ UNCHANGED <<user_input, local_detected, detected_lang, answer_text,
                   resp_lang,
                   translated_query, eng_answer_text, translated_back,
                   final_answer_text, final_answer_language, fallback_used,
                   error, calls, message_chunks, idx, h_vars, l_vars>>

\* lines 382-384: report the error in a new message; a failure is not caught
ReportErrorReply ==
    /\ pc = "report_reply"
    /\ \E ok \in BOOLEAN :
         /\ attempts' = Append(attempts, Attempt(ErrorMsg("reply", error), 0, ok))
         /\ IF ok
            THEN /\ sent' = Append(sent, ErrorMsg("reply", error))
                 /\ pc' = "done"
            ELSE /\ sent' = sent
                 /\ pc' = "crashed"
    /\ UNCHANGED <<user_input, local_detected, detected_lang, answer_text,
                   resp_lang,
                   translated_query, eng_answer_text, translated_back,
                   final_answer_text, final_answer_language, fallback_used,
                   error, calls, message_chunks, idx, h_vars, l_vars>>

\* lines 387-402: the final safety net, formatting and chunking
Format ==
    /\ pc = "format"
    /\ LET text == IF final_answer_text = None \/ final_answer_text = <<>>
                   THEN LastResortPlaceholder ELSE final_answer_text
           lang == IF final_answer_text = None \/ final_answer_text = <<>>
                   THEN detected_lang ELSE final_answer_language
       IN  /\ final_answer_text' = text
           /\ final_answer_language' = lang
           /\ message_chunks' = chunk_text(format_for_html(text), ChunkLimit)
    /\ idx' = 1
    /\ pc' = "send_first"
    /\ UNCHANGED <<user_input, local_detected, detected_lang, answer_text,
                   resp_lang,
                   translated_query, eng_answer_text, translated_back,
                   fallback_used, error, calls, sent, attempts, h_vars, l_vars>>

\* a payload with the part header on the first chunk too
Payload_mut(i) == Header(i, Len(message_chunks)) \o message_chunks[i]

\* the payload of chunk i: lines 405 and 413-414
Payload(i) ==
    IF i = 1 THEN Strip(message_chunks[1])
    ELSE Header(i, Len(message_chunks)) \o message_chunks[i]

\* a delivery that stops after the first chunk it delivered
AfterChunk_mut(i) == "done"

\* where the delivery goes after chunk i was delivered
AfterChunk(i) == IF i < Len(message_chunks) THEN "send_html" ELSE "done"

\* lines 407 and 416: send chunk idx as HTML
SendHTML ==
    /\ pc \in {"send_first", "send_html"}
    /\ \E ok \in BOOLEAN :
         LET m == Msg(IF idx = 1 THEN "edit" ELSE "reply", "answer",
                      Payload(idx), "-", "HTML")
         IN  /\ attempts' = Append(attempts, Attempt(m, idx, ok))
             /\ IF ok
                THEN /\ sent' = Append(sent, m)
                     /\ pc' = AfterChunk(idx)
                     /\ idx' = idx + 1
                ELSE /\ sent' = sent
                     /\ pc' = "send_plain"
                     /\ idx' = idx
    /\ UNCHANGED <<user_input, local_detected, detected_lang, answer_text,
                   resp_lang,
                   translated_query, eng_answer_text, translated_back,
                   final_answer_text, final_answer_language, fallback_used,
                   error, calls, message_chunks, h_vars, l_vars>>

\* lines 410 and 419: send chunk idx again, as plain text
SendPlain ==
    /\ pc = "send_plain"
    /\ \E ok \in BOOLEAN :
         LET m == Msg(IF idx = 1 THEN "edit" ELSE "reply", "answer",
                      strip_html_tags_for_plaintext(Payload(idx)), "-", "plain")
         IN  /\ attempts' = Append(attempts, Attempt(m, idx, ok))
             /\ IF ok
                THEN /\ sent' = Append(sent, m)
                     /\ pc' = AfterChunk(idx)
                     /\ idx' = idx + 1
                ELSE /\ sent' = sent
                     /\ pc' = "last_resort"
                     /\ idx' = idx
    /\ UNCHANGED <<user_input, local_detected, detected_lang, answer_text,
                   resp_lang,
                   translated_query, eng_answer_text, translated_back,
                   final_answer_text, final_answer_language, fallback_used,
                   error, calls, message_chunks, h_vars, l_vars>>

\* lines 420-425: one last plain-text send of the whole answer, best effort
SendLastResort ==
    /\ pc = "last_resort"
    /\ \E ok \in BOOLEAN :
         LET m == Msg("reply", "answer",
                      strip_html_tags_for_plaintext(final_answer_text), "-",
                      "plain")
         IN  /\ attempts' = Append(attempts, Attempt(m, 0, ok))
             /\ sent' = IF ok THEN Append(sent, m) ELSE sent
    /\ pc' = "done"
    /\ UNCHANGED <<user_input, local_detected, detected_lang, answer_text,
                   resp_lang,
                   translated_query, eng_answer_text, translated_back,
                   final_answer_text, final_answer_language, fallback_used,
                   error, calls, message_chunks, idx, h_vars, l_vars>>

Next ==
    \/ SendThinking
    \/ DetectLanguage
    \/ PrimaryCall
    \/ TranslateQuery
    \/ TranslateQueryAuto
    \/ PivotCall
    \/ BackTranslate
    \/ ReportErrorEdit
    \/ ReportErrorReply
    \/ Format
    \/ SendHTML
    \/ SendPlain
    \/ SendLastResort

Spec == Init /\ [][Next]_vars

-----------------------------------------------------------------------------
(* The pure functions, each applied to one input drawn from a bounded set *)

\* no invocation of handle_message is running
HMIdle ==
    /\ pc = "idle"
    /\ user_input = <<>>
    /\ local_detected = NoLang
    /\ detected_lang = NoLang
    /\ answer_text = None
    /\ resp_lang = NoLang
    /\ translated_query = None
    /\ eng_answer_text = None
    /\ translated_back = None
    /\ final_answer_text = None
    /\ final_answer_language = NoLang
    /\ fallback_used = FALSE
    /\ error = NoLang
    /\ calls = <<>>
    /\ sent = <<>>
    /\ attempts = <<>>
    /\ message_chunks = <<>>
    /\ idx = 0

\* the pieces the identifier's texts are made of: the three native words, one
\* character of every range of the script table, a Latin letter, a space
IdFragments ==
    {WordMarathi, WordHindiA, WordHindiB, <<2325>>, <<2453>>, <<2581>>,
     <<2709>>, <<2837>>, <<2965>>, <<3093>>, <<3221>>, <<3349>>, <<1078>>,
     <<1576>>, <<1872>>, <<12354>>, <<12450>>, <<26085>>, <<4352>>, <<12593>>,
     <<44032>>, <<97>>, <<32>>}

RECURSIVE FragTexts(_)
\* the concatenations of exactly n fragments
FragTexts(n) ==
    IF n = 0 THEN {<<>>}
    ELSE {f \o t : f \in IdFragments, t \in FragTexts(n - 1)}

IdTexts == UNION {FragTexts(n) : n \in 0..MaxFrags}

InitIdentify ==
    /\ HMIdle
    /\ LOff
    /\ h_pc = "in"
    /\ h_in \in [text : IdTexts, outcome : DetectOutcomes]
    /\ h_out = <<>>

\* lines 246-247: detect_language, then infer_language_from_script
Identify ==
    /\ h_pc = "in"
    /\ h_out' = infer_language_from_script(
                    h_in.text, detect_language(h_in.text, h_in.outcome))
    /\ h_pc' = "out"
    /\ UNCHANGED <<h_in, hm_vars, l_vars>>

NextIdentify == Identify

SpecIdentify == InitIdentify /\ [][NextIdentify]_vars

InitTranslate ==
    /\ HMIdle
    /\ LOff
    /\ h_pc = "in"
    /\ h_in \in [text : {<<104, 105>>, <<2980, 2990>>},
                 source : {"ta", "auto", "en"}, target : {"en", "ta"},
                 resp : Responses]
    /\ h_out = <<>>

\* one call of libretranslate_translate
Translate ==
    /\ h_pc = "in"
    /\ h_out' = libretranslate_translate(h_in.text, h_in.source, h_in.target,
                                         h_in.resp)
    /\ h_pc' = "out"
    /\ UNCHANGED <<h_in, hm_vars, l_vars>>

NextTranslate == Translate

SpecTranslate == InitTranslate /\ [][NextTranslate]_vars

\* length of the texts given to the chunker
MaxChunkText == 6

\* the limits the chunker is tried with are 1..MaxChunkLimit
MaxChunkLimit == 3

\* "a", newline, space
ChunkAlphabet == {97, NL, SP}

ChunkTexts ==
    UNION {[1..n -> ChunkAlphabet] : n \in 0..MaxChunkText}

InitChunk ==
    /\ HMIdle
    /\ LOff
    /\ h_pc = "in"
    /\ h_in \in [raw : ChunkTexts, limit : 1..MaxChunkLimit]
    /\ h_out = <<>>

\* lines 401-402 with the limit as a parameter: format, then chunk
Chunk ==
    /\ h_pc = "in"
    /\ LET formatted == format_for_html(h_in.raw)
       IN  h_out' = [formatted |-> formatted,
                     chunks |-> chunk_text(formatted, h_in.limit)]
    /\ h_pc' = "out"
    /\ UNCHANGED <<h_in, hm_vars, l_vars>>

NextChunk == Chunk

SpecChunk == InitChunk /\ [][NextChunk]_vars

\* chunk_text run one iteration of its loop at a time: h_out.text is the
\* local text, h_out.chunks the local chunks
InitChunkLoop ==
    /\ HMIdle
    /\ LOff
    /\ h_pc = "loop"
    /\ h_in \in [text : ChunkTexts, limit : 1..MaxChunkLimit]
    /\ h_out = [text |-> h_in.text, chunks |-> <<>>]

\* lines 56-63: one iteration of the while loop
ChunkIter ==
    /\ h_pc = "loop"
    /\ Len(h_out.text) > h_in.limit
    /\ LET sp == split_point(h_out.text, h_in.limit)
       IN  h_out' = [text |-> LStrip(Slice(h_out.text, sp, Len(h_out.text))),
                     chunks |-> Append(h_out.chunks, Slice(h_out.text, 0, sp))]
    /\ UNCHANGED <<h_pc, h_in, hm_vars, l_vars>>

\* lines 56 and 64-65: the loop ends, the rest of the text is the last chunk
ChunkLast ==
    /\ h_pc = "loop"
    /\ ~(Len(h_out.text) > h_in.limit)
    /\ h_out' = [h_out EXCEPT !.chunks = Append(h_out.chunks, h_out.text)]
    /\ h_pc' = "out"
    /\ UNCHANGED <<h_in, hm_vars, l_vars>>

NextChunkLoop == ChunkIter \/ ChunkLast

SpecChunkLoop == InitChunkLoop /\ [][NextChunkLoop]_vars

\* number of fragments concatenated into a text given to the formatter
MaxFmtFrags == 4

\* the pieces the formatter's texts are made of: the bold marker, a letter, the
\* three characters HTML reserves, a newline, and the text line 79 uses as the
\* placeholder of the first bold span
FmtFragments ==
    {<<STAR, STAR>>, <<97>>, <<AMP>>, <<LT>>, <<GT>>, <<NL>>, Placeholder(0)}

RECURSIVE FmtFragTexts(_)
\* the concatenations of exactly n fragments
FmtFragTexts(n) ==
    IF n = 0 THEN {<<>>}
    ELSE {f \o t : f \in FmtFragments, t \in FmtFragTexts(n - 1)}

FmtTexts == UNION {FmtFragTexts(n) : n \in 0..MaxFmtFrags}

InitFormat ==
    /\ HMIdle
    /\ LOff
    /\ h_pc = "in"
    /\ h_in \in [raw : FmtTexts]
    /\ h_out = <<>>

\* lines 401-402: format the text as HTML, then cut it into chunks
FormatAndChunk ==
    /\ h_pc = "in"
    /\ LET formatted == format_for_html(h_in.raw)
       IN  h_out' = [formatted |-> formatted,
                     chunks |-> chunk_text(formatted, ChunkLimit)]
    /\ h_pc' = "out"
    /\ UNCHANGED <<h_in, hm_vars, l_vars>>

NextFormat == FormatAndChunk

SpecFormat == InitFormat /\ [][NextFormat]_vars

-----------------------------------------------------------------------------
(* Several invocations of handle_message on the event loop of run_polling.  *)
(* handle_message is a coroutine: the loop's one thread runs it from an     *)
(* await to the next.  An `await` (lines 243, 381, 383, 407-419) suspends   *)
(* the coroutine and frees the thread; client.answer_query (lines 300, 350) *)
(* and requests.post (line 195) are plain calls, so the thread stays inside *)
(* the invocation until the remote service has answered.  What the calls    *)
(* return is left open here: every branch of lines 309-375 can be taken.    *)

\* number of messages received while the bot runs
MaxInvocations == 3

Invocations == 1..MaxInvocations

\* the positions at which an invocation is inside a remote call
RemotePositions ==
    {"remote_primary", "remote_translate", "remote_translate_auto",
     "remote_pivot", "remote_back"}

InitLoop ==
    /\ HMIdle
    /\ HOff
    /\ inv_pc = [i \in Invocations |-> "queued"]
    /\ loop_owner = 0

\* lines 239-243: the handler starts and runs up to its first await
Start(i) ==
    /\ loop_owner = 0
    /\ inv_pc[i] = "queued"
    /\ inv_pc' = [inv_pc EXCEPT ![i] = "await_thinking"]
    /\ UNCHANGED <<loop_owner, hm_vars, h_vars>>

\* lines 243-300: the "thinking" reply was sent, the coroutine is resumed and
\* runs into client.answer_query
Resume(i) ==
    /\ loop_owner = 0
    /\ inv_pc[i] = "await_thinking"
    /\ inv_pc' = [inv_pc EXCEPT ![i] = "remote_primary"]
    /\ loop_owner' = i
    /\ UNCHANGED <<hm_vars, h_vars>>

\* lines 300-329 and 377-381: the primary call returns or raises; the answer
\* is accepted or the call raised (next stop: an await), or the fallback
\* starts with the query translation or with the pivot call
PrimaryReturns(i) ==
    /\ inv_pc[i] = "remote_primary"
    /\ \E next \in {"await_deliver", "remote_translate", "remote_pivot"} :
         /\ inv_pc' = [inv_pc EXCEPT ![i] = next]
         /\ loop_owner' = IF next = "await_deliver" THEN 0 ELSE i
    /\ UNCHANGED <<hm_vars, h_vars>>

\* lines 320-322 with line 195: the first query translation returns
TranslateReturns(i) ==
    /\ inv_pc[i] = "remote_translate"
    /\ \E next \in {"remote_translate_auto", "remote_pivot"} :
         inv_pc' = [inv_pc EXCEPT ![i] = next]
    /\ UNCHANGED <<loop_owner, hm_vars, h_vars>>

\* lines 322-350 with line 195: the retry with source "auto" returns
TranslateAutoReturns(i) ==
    /\ inv_pc[i] = "remote_translate_auto"
    /\ inv_pc' = [inv_pc EXCEPT ![i] = "remote_pivot"]
    /\ UNCHANGED <<loop_owner, hm_vars, h_vars>>

\* lines 350-375: the pivot call returns or raises; the back-translation
\* follows, or the next stop is an await
PivotReturns(i) ==
    /\ inv_pc[i] = "remote_pivot"
    /\ \E next \in {"await_deliver", "remote_back"} :
         /\ inv_pc' = [inv_pc EXCEPT ![i] = next]
         /\ loop_owner' = IF next = "await_deliver" THEN 0 ELSE i
    /\ UNCHANGED <<hm_vars, h_vars>>

\* lines 365-407 with line 195: the back-translation returns
BackReturns(i) ==
    /\ inv_pc[i] = "remote_back"
    /\ inv_pc' = [inv_pc EXCEPT ![i] = "await_deliver"]
    /\ loop_owner' = 0
    /\ UNCHANGED <<hm_vars, h_vars>>

\* lines 381-425: the awaited sends complete and the handler returns
Delivered(i) ==
    /\ loop_owner = 0
    /\ inv_pc[i] = "await_deliver"
    /\ inv_pc' = [inv_pc EXCEPT ![i] = "done"]
    /\ UNCHANGED <<loop_owner, hm_vars, h_vars>>

\* the steps invocation i takes on the loop's thread between two awaits
LoopStep(i) == Start(i) \/ Resume(i) \/ Delivered(i)

NextLoop ==
    \/ \E i \in Invocations : Start(i)
    \/ \E i \in Invocations : Resume(i)
    \/ \E i \in Invocations : PrimaryReturns(i)
    \/ \E i \in Invocations : TranslateReturns(i)
    \/ \E i \in Invocations : TranslateAutoReturns(i)
    \/ \E i \in Invocations : PivotReturns(i)
    \/ \E i \in Invocations : BackReturns(i)
    \/ \E i \in Invocations : Delivered(i)

SpecLoop == InitLoop /\ [][NextLoop]_vars

-----------------------------------------------------------------------------
(* Properties of handle_message (specification Spec) *)

AnswerIdx == {i \in DOMAIN calls : calls[i].svc = "answer"}

TransIdx == {i \in DOMAIN calls : calls[i].svc = "translate"}

\* the translator calls issued after the pivot call
BackIdx == {i \in TransIdx : \E k \in AnswerIdx : k > 1 /\ i > k}

\* the invocation went through the formatter
Delivering ==
    \/ pc \in {"send_first", "send_html", "send_plain", "last_resort"}
    \/ pc = "done" /\ error = NoLang

\* the primary answer is non-empty and detect() found it in the language of
\* the query, compared by the part of the code before "-"
AcceptedCase ==
    /\ answer_text # None
    /\ ~IsBlank(answer_text)
    /\ resp_lang \notin {NoLang, DetectRaises}
    /\ ShortCode(resp_lang) = ShortCode(detected_lang)

\* C1: whenever the primary answer is non-empty and in the detected
\* language, the final result is (primary answer, detected_lang), the fallback
\* flag is false, and the primary call is the only external call of the cycle
\* (no translator call, no pivot call).
C1_AcceptedPrimaryIsFinal ==
    AcceptedCase =>
        /\ final_answer_text = answer_text
        /\ final_answer_language = detected_lang
        /\ ~fallback_used
        /\ calls = <<AnswerCall(user_input, detected_lang, answer_text)>>

\* an accepted answer whose code differs from the detected one by its region
C1_Witness ==
    /\ AcceptedCase
    /\ resp_lang # detected_lang
    /\ pc = "done"
    /\ \E j \in DOMAIN sent : sent[j].kind = "answer"

\* C2: if an answer-engine call raises, primary or pivot, it is the last
\* external call of the cycle, no answer chunk is delivered, and the only
\* message sent after the "thinking" reply is one error message carrying the
\* description of the failure.
C2_EngineFailureIsTerminal ==
    \A i \in AnswerIdx : calls[i].ret = Raise =>
        /\ i = Len(calls)
        /\ pc \in {"report_edit", "report_reply", "done", "crashed"}
        /\ error \in ErrorDescs
        /\ \A j \in DOMAIN sent :
              \/ j = 1 /\ sent[j].kind = "thinking"
              \/ sent[j].kind = "error" /\ sent[j].desc = error
        /\ Cardinality({j \in DOMAIN sent : sent[j].kind = "error"}) <= 1
        /\ pc = "done" => \E j \in DOMAIN sent : sent[j].kind = "error"

\* the pivot call raised after a primary answer was received and rejected
C2_Witness ==
    /\ pc = "done"
    /\ Len(calls) >= 3
    /\ calls[Len(calls)].svc = "answer"
    /\ calls[Len(calls)].ret = Raise
    /\ answer_text # None /\ ~IsBlank(answer_text)
    /\ \E j \in DOMAIN sent : sent[j].kind = "error"

\* both answer-engine calls returned no text
AllPathsEmpty == answer_text = <<>> /\ eng_answer_text = <<>>

\* C3 as stated: in every cycle that reaches the formatter the final text is
\* non-empty and the final language is detected_lang or "en"; when every path
\* produced nothing the text is the last-resort placeholder of line 388,
\* paired with detected_lang.
C3_Original ==
    Delivering =>
        /\ final_answer_text \notin {None, <<>>}
        /\ final_answer_language \in {detected_lang, "en"}
        /\ AllPathsEmpty =>
              /\ final_answer_text = LastResortPlaceholder
              /\ final_answer_language = detected_lang

\* C3 amended: in every cycle that reaches the formatter the final text is
\* non-empty and the final language is detected_lang or "en"; when every path
\* produced nothing the text is the placeholder of the pivot path (line 359),
\* paired with detected_lang.
C3_FinalNeverAbsent ==
    Delivering =>
        /\ final_answer_text \notin {None, <<>>}
        /\ final_answer_language \in {detected_lang, "en"}
        /\ AllPathsEmpty =>
              /\ final_answer_text = PivotPlaceholder
              /\ final_answer_language = detected_lang

\* both calls returned no text and the cycle delivered its answer
C3_Witness ==
    /\ pc = "done"
    /\ error = NoLang
    /\ AllPathsEmpty
    /\ detected_lang # "en"
    /\ \E j \in DOMAIN sent : sent[j].kind = "answer"

\* C4: when detected_lang is "en" and the primary answer is empty, no
\* translator call is issued, the pivot query is the original query text, and
\* exactly one pivot call follows the primary call (two answer-engine calls).
C4_EnglishEmptySkipsTranslation ==
    (detected_lang = "en" /\ answer_text = <<>>) =>
        /\ TransIdx = {}
        /\ translated_query = user_input
        /\ pc = "pivot" => Len(calls) = 1
        /\ pc # "pivot" =>
              /\ Len(calls) = 2
              /\ calls[2].svc = "answer"
              /\ calls[2].text = user_input
              /\ calls[2].target = "en"

\* an English query whose two answers are both empty, at the end of the cycle
C4_Witness ==
    /\ detected_lang = "en"
    /\ answer_text = <<>>
    /\ user_input # <<>>
    /\ pc = "done"
    /\ Len(calls) = 2

\* C5: on the pivot path the final pair is determined by the pivot answer and
\* the back-translation: an empty pivot answer gives (placeholder,
\* detected_lang) without a back-translation call; a non-empty one with
\* detected_lang "en" gives (english_answer, "en") without a back-translation
\* call; otherwise one call (english_answer, "en", detected_lang) is made and
\* the pair is (translated, detected_lang) if it returned text, and
\* (english_answer, "en") if it did not.
C5_PivotResult ==
    (eng_answer_text # None /\ pc # "back_translate") =>
        IF eng_answer_text = <<>>
        THEN /\ final_answer_text = PivotPlaceholder
             /\ final_answer_language = detected_lang
             /\ BackIdx = {}
        ELSE IF detected_lang = "en"
        THEN /\ final_answer_text = eng_answer_text
             /\ final_answer_language = "en"
             /\ BackIdx = {}
        ELSE /\ Cardinality(BackIdx) = 1
             /\ \A i \in BackIdx :
                   /\ calls[i].text = eng_answer_text
                   /\ calls[i].source = "en"
                   /\ calls[i].target = detected_lang
                   /\ IF Truthy(calls[i].ret)
                      THEN /\ final_answer_text = calls[i].ret
                           /\ final_answer_language = detected_lang
                      ELSE /\ final_answer_text = eng_answer_text
                           /\ final_answer_language = "en"

\* the back-translation returned nothing and the English answer is delivered
C5_Witness ==
    /\ pc = "done"
    /\ detected_lang \notin {"en", NoLang}
    /\ eng_answer_text \notin {None, <<>>}
    /\ \E i \in BackIdx : ~Truthy(calls[i].ret)
    /\ final_answer_language = "en"

\* every translator call of the log returned a text
TranslatorWorks == \A i \in TransIdx : Truthy(calls[i].ret)

\* C6: the external calls of a cycle are ordered and bounded: the primary
\* call is first; a pivot call is issued only after the primary call returned
\* and its answer was rejected; the query translations precede the pivot call
\* and the back-translation follows its return; there are at most two
\* answer-engine calls and three translator calls.  With a non-English
\* detected language, a non-empty mismatched primary answer, a working
\* translator and a non-empty pivot answer the calls are: primary, translate
\* the query to English, pivot with "en", back-translate; and the final
\* language is the detected one.
C6_CallOrder ==
    /\ calls # <<>> =>
          /\ calls[1].svc = "answer"
          /\ calls[1].text = user_input
          /\ calls[1].target = detected_lang
    /\ Cardinality(AnswerIdx) <= 2
    /\ Cardinality(TransIdx) <= 3
    /\ \A k \in AnswerIdx \ {1} :
          /\ calls[1].ret # Raise
          /\ answer_text = calls[1].ret
          /\ ~AcceptedCase
          /\ calls[k].text = translated_query
          /\ calls[k].target = "en"
          /\ \A i \in TransIdx :
                IF i < k
                THEN /\ calls[i].text = user_input
                     /\ calls[i].source \in {detected_lang, "auto"}
                     /\ calls[i].target = "en"
                ELSE /\ calls[k].ret \notin {Raise, <<>>}
                     /\ calls[i].text = calls[k].ret
                     /\ calls[i].source = "en"
                     /\ calls[i].target = detected_lang
    /\ AnswerIdx \subseteq {1} =>
          \A i \in TransIdx : calls[i].text = user_input /\ calls[i].target = "en"
    /\ ( /\ Delivering
         /\ detected_lang # "en"
         /\ ~IsBlank(answer_text)
         /\ ~AcceptedCase
         /\ TranslatorWorks
         /\ eng_answer_text \notin {None, <<>>} ) =>
          /\ calls = <<AnswerCall(user_input, detected_lang, answer_text),
                       TranslateCall(user_input, detected_lang, "en",
                                     translated_query),
                       AnswerCall(translated_query, "en", eng_answer_text),
                       TranslateCall(eng_answer_text, "en", detected_lang,
                                     final_answer_text)>>
          /\ final_answer_language = detected_lang

\* a Tamil query, an answer that is not Tamil, a working translator
C6_Witness ==
    /\ pc = "done"
    /\ detected_lang = "ta"
    /\ ~IsBlank(answer_text)
    /\ resp_lang = "en"
    /\ Len(calls) = 4
    /\ TranslatorWorks
    /\ final_answer_language = "ta"

\* C9 as stated: no exception escapes handle_message, whatever fails.
C9_NeverCrashes == pc # "crashed"

-----------------------------------------------------------------------------
(* Properties of libretranslate_translate (specification SpecTranslate) *)

\* the payload has none of the three recognized fields
NoRecognizedField(resp) ==
    /\ resp.translatedText = None
    /\ resp.translated_text = None
    /\ resp.text = None

\* C7: libretranslate_translate never raises and makes exactly one remote
\* call; when the remote call fails (transport error, timeout, non-2xx
\* status, non-JSON body, body of an unexpected shape) or the payload has no
\* recognized field, it returns None.
C7_TranslateNeverRaises ==
    h_pc = "out" =>
        /\ ~h_out.raised
        /\ h_out.posts = 1
        /\ (h_in.resp.kind \in FailureKinds \/ NoRecognizedField(h_in.resp)) =>
              h_out.value = None

\* a call whose remote request timed out has returned
C7_Witness ==
    /\ h_pc = "out"
    /\ h_in.resp.kind = "timeout"
    /\ h_out.value = None

\* the value of the first recognized field the payload has, in the order
\* translatedText, translated_text, text; None when it has none of them
FirstFieldPresent(resp) ==
    IF resp.translatedText # None THEN resp.translatedText
    ELSE IF resp.translated_text # None THEN resp.translated_text
    ELSE resp.text

\* C20: on a JSON object libretranslate_translate returns the value of the
\* first recognized field that is present, in the order translatedText,
\* translated_text, text, and returns None only when none of the three is
\* present.
C20_FirstFieldPresent ==
    (h_pc = "out" /\ h_in.resp.kind = "object") =>
        /\ h_out.value = FirstFieldPresent(h_in.resp)
        /\ h_out.value = None => NoRecognizedField(h_in.resp)

-----------------------------------------------------------------------------
(* Properties of chunk_text (specification SpecChunk) *)

RECURSIVE Concat(_)
\* the chunks put end to end
Concat(chunks) ==
    IF chunks = <<>> THEN <<>> ELSE Head(chunks) \o Concat(Tail(chunks))

RECURSIVE JoinsUpToSpace(_, _)
\* text is the chunks in order, with nothing but whitespace between one chunk
\* and the next, and no later chunk starts with that whitespace
JoinsUpToSpace(text, chunks) ==
    IF Len(chunks) = 1 THEN text = chunks[1]
    ELSE LET n == Len(chunks[1])
         IN  /\ n <= Len(text)
             /\ SubSeq(text, 1, n) = chunks[1]
             /\ JoinsUpToSpace(LStrip(SubSeq(text, n + 1, Len(text))),
                               Tail(chunks))

\* C8 as stated: for a formatted text longer than the limit, the chunks
\* concatenated in order are the formatted text.
C8_Original ==
    (h_pc = "out" /\ Len(h_out.formatted) > h_in.limit) =>
        Concat(h_out.chunks) = h_out.formatted

\* C8 amended: for a formatted text longer than the limit, the chunks in order
\* are the formatted text without the whitespace that followed each cut: the
\* text is recovered by inserting only whitespace between consecutive chunks.
C8_RoundTripUpToSpace ==
    (h_pc = "out" /\ Len(h_out.formatted) > h_in.limit) =>
        JoinsUpToSpace(h_out.formatted, h_out.chunks)

\* a text cut at a newline, which the chunks have lost
C8_Witness ==
    /\ h_pc = "out"
    /\ Len(h_out.formatted) > h_in.limit
    /\ Len(h_out.chunks) >= 3
    /\ Concat(h_out.chunks) # h_out.formatted

-----------------------------------------------------------------------------
(* Properties of the language identifier (specification SpecIdentify) *)

\* the blocks of the script table that map to one code unconditionally
PlainBlocks ==
    {[class |-> 2432..2559, code |-> "bn"],
     [class |-> 2560..2687, code |-> "pa"],
     [class |-> 2688..2815, code |-> "gu"],
     [class |-> 2816..2943, code |-> "or"],
     [class |-> 2944..3071, code |-> "ta"],
     [class |-> 3072..3199, code |-> "te"],
     [class |-> 3200..3327, code |-> "kn"],
     [class |-> 3328..3455, code |-> "ml"],
     [class |-> 1024..1279, code |-> "ru"],
     [class |-> (1536..1791) \cup (1872..1919), code |-> "ar"],
     [class |-> 12352..12543, code |-> "ja"],
     [class |-> (4352..4607) \cup (12592..12687) \cup (44032..55215),
      code |-> "ko"]}

\* the characters of the Devanagari and CJK ideograph blocks
DevanagariBlock == 2304..2431

IdeographBlock == 19968..40959

KanaBlock == 12352..12543

\* c belongs to some block of the script table
InTable(c) ==
    \/ c \in DevanagariBlock
    \/ c \in IdeographBlock
    \/ \E b \in PlainBlocks : c \in b.class

\* text has a character of class, and all its script characters are in class
OnlyScript(text, class) ==
    /\ \E i \in 1..Len(text) : text[i] \in class
    /\ \A i \in 1..Len(text) : InTable(text[i]) => text[i] \in class

\* C10: for a non-blank text whose script characters all come from one block
\* the identified language is that block's code, whatever the detector did;
\* for a text whose script characters are CJK ideographs, with or without
\* kana, it is "ja" if kana are present and "zh" otherwise.
C10_SingleScript ==
    (h_pc = "out" /\ ~IsBlank(h_in.text)) =>
        /\ \A b \in PlainBlocks :
              OnlyScript(h_in.text, b.class) => h_out = b.code
        /\ ( /\ \E i \in 1..Len(h_in.text) : h_in.text[i] \in IdeographBlock
             /\ OnlyScript(h_in.text, IdeographBlock \cup KanaBlock) ) =>
              h_out = IF \E i \in 1..Len(h_in.text) : h_in.text[i] \in KanaBlock
                      THEN "ja" ELSE "zh"

\* a katakana text, with a Latin letter, that the detector took for Hindi
C10_Witness ==
    /\ h_pc = "out"
    /\ h_in.outcome = "hi"
    /\ OnlyScript(h_in.text, 12448..12543)
    /\ \E i \in 1..Len(h_in.text) : h_in.text[i] = 97
    /\ h_out = "ja"

-----------------------------------------------------------------------------
(* Properties of format_for_html (specification SpecFormat) *)

\* the number of places at which pat occurs in s
Count(s, pat) == Cardinality({i \in 0..Len(s) : MatchAt(s, pat, i)})

\* the number of paired ** ... ** spans of a text
Spans(s) == Len(BoldSub(s, 0).bolds)

\* C11: for every input, placeholder text included, format_for_html escapes
\* every "&", "<" and ">" of the input exactly once, wraps every paired
\* ** ... ** span in one <b> ... </b> span, and leaves no "<" or ">" unescaped
\* other than those of the <b> and </b> tags it inserted.
C11_FormatEscapes ==
    h_pc = "out" =>
        LET raw == h_in.raw
            out == h_out.formatted
        IN  /\ Count(out, AMP_ENT) = Count(raw, <<AMP>>)
            /\ Count(out, LT_ENT) = Count(raw, <<LT>>)
            /\ Count(out, GT_ENT) = Count(raw, <<GT>>)
            /\ Count(out, <<AMP>>) =
                  Count(raw, <<AMP>>) + Count(raw, <<LT>>) + Count(raw, <<GT>>)
            /\ Count(out, B_OPEN) = Spans(raw)
            /\ Count(out, B_CLOSE) = Spans(raw)
            /\ Count(out, <<LT>>) = 2 * Spans(raw)
            /\ Count(out, <<GT>>) = 2 * Spans(raw)

\* every "&" of s starts an entity, every "<" starts and every ">" ends a
\* <b> or </b> tag, and the tags pair up: no closing tag without an opening
\* one before it, no span left open
WellFormed(s) ==
    /\ \A i \in 0..(Len(s) - 1) :
          /\ s[i + 1] = AMP =>
                \/ MatchAt(s, AMP_ENT, i)
                \/ MatchAt(s, LT_ENT, i)
                \/ MatchAt(s, GT_ENT, i)
          /\ s[i + 1] = LT => MatchAt(s, B_OPEN, i) \/ MatchAt(s, B_CLOSE, i)
          /\ s[i + 1] = GT =>
                MatchAt(s, B_OPEN, i - 2) \/ MatchAt(s, B_CLOSE, i - 3)
    /\ Count(s, B_OPEN) = Count(s, B_CLOSE)
    /\ \A p \in 0..Len(s) :
          Count(SubSeq(s, 1, p), B_CLOSE) <= Count(SubSeq(s, 1, p), B_OPEN)

\* C16: chunk_text never cuts the output of format_for_html inside an escape
\* sequence (&amp; &lt; &gt;), inside a <b> or </b> tag, or inside a
\* <b> ... </b> span: every chunk of a well-formed formatted text is
\* well-formed by itself.
C16_NoCutInsideMarkup ==
    (h_pc = "out" /\ WellFormed(h_out.formatted)) =>
        \A k \in DOMAIN h_out.chunks : WellFormed(h_out.chunks[k])

-----------------------------------------------------------------------------
(* Totality of the language identifier (specification SpecIdentify)       *)

\* C12: the identifier (detect_language, then infer_language_from_script)
\* returns "en" for the empty text and for a text of whitespace only, and a
\* non-empty language code for every input, the detector failing or not.
C12_IdentifierTotal ==
    h_pc = "out" =>
        /\ h_out # ""
        /\ h_out # NoLang
        /\ (\A i \in 1..Len(h_in.text) : IsSpace(h_in.text[i])) => h_out = "en"

\* a Devanagari text without a native word on which the detector failed
C12_Witness ==
    /\ h_pc = "out"
    /\ h_in.outcome = DetectRaises
    /\ h_in.text = <<2325, SP>>
    /\ h_out = "hi"

\* the text has a character of the Devanagari block, U+0900 to U+097F
HasDevanagari(text) ==
    \E i \in 1..Len(text) : text[i] >= 2304 /\ text[i] <= 2431

\* C19: a text with a Devanagari character, mixed with other blocks or not,
\* is identified as "mr" if it contains the Marathi word (a Hindi spelling
\* being present or not), else as "hi" if it contains either Hindi spelling,
\* else as what the detector returned if that is not "en", else as "hi".
C19_DevanagariRule ==
    (h_pc = "out" /\ HasDevanagari(h_in.text)) =>
        h_out = IF Contains(h_in.text, WordMarathi) THEN "mr"
                ELSE IF \/ Contains(h_in.text, WordHindiA)
                        \/ Contains(h_in.text, WordHindiB)
                THEN "hi"
                ELSE IF h_in.outcome \in DetectCodes \ {"en"}
                THEN h_in.outcome
                ELSE "hi"

\* a text with a Hindi spelling followed by the Marathi word, which the
\* detector took for Hindi
C19_Witness ==
    /\ h_pc = "out"
    /\ h_in.text = WordHindiA \o WordMarathi
    /\ h_in.outcome = "hi"
    /\ h_out = "mr"

-----------------------------------------------------------------------------
(* Properties of concurrent invocations (specification SpecLoop) *)

\* C13: while one invocation of handle_message waits for a remote call (the
\* answer engine or the translation service) to return, an invocation for
\* another message is not blocked: if it has a step left to take, it can
\* take it before the remote call returns.
C13_RemoteCallDoesNotBlock ==
    \A i \in Invocations, j \in Invocations :
        ( /\ i # j
          /\ inv_pc[i] \in RemotePositions
          /\ inv_pc[j] \in {"queued", "await_thinking", "await_deliver"} )
        => ENABLED LoopStep(j)

-----------------------------------------------------------------------------
(* Properties of the fallback and of the delivery (specification Spec) *)

\* the primary call returned, its answer was rejected, and the detected
\* language is not English
RejectedNonEnglish ==
    /\ answer_text # None
    /\ ~AcceptedCase
    /\ detected_lang # "en"
    /\ pc # "primary"

\* a translator call that yielded no text: None or the empty text
Absent(v) == v = None \/ v = <<>>

\* C14: when the primary answer is rejected and the detected language is not
\* "en", the translator is first called with (query, detected_lang, "en"); a
\* second call with source "auto" is made if and only if the first returned
\* no text; the pivot query is the first translation obtained, or the
\* original query when both calls returned none; and in all three cases the
\* pivot call is issued, with the language "en".
C14_QueryTranslation ==
    RejectedNonEnglish =>
        /\ Len(calls) >= 2 =>
              calls[2] = TranslateCall(user_input, detected_lang, "en",
                                       calls[2].ret)
        /\ Len(calls) >= 3 =>
              IF Absent(calls[2].ret)
              THEN calls[3] = TranslateCall(user_input, "auto", "en",
                                            calls[3].ret)
              ELSE calls[3] = AnswerCall(calls[2].ret, "en", calls[3].ret)
        /\ (Len(calls) >= 4 /\ Absent(calls[2].ret)) =>
              calls[4] = AnswerCall(IF Absent(calls[3].ret) THEN user_input
                                    ELSE calls[3].ret,
                                    "en", calls[4].ret)
        /\ Cardinality({i \in TransIdx : calls[i].source = "auto"}) <= 1
        /\ pc \notin {"translate_query", "translate_auto", "pivot"} =>
              Cardinality(AnswerIdx) = 2

\* both translations of a Tamil query returned no text, the first one the
\* empty text, and the pivot call was issued with the query as typed
C14_Witness ==
    /\ RejectedNonEnglish
    /\ user_input = <<2980, 2990>>
    /\ Len(calls) >= 4
    /\ calls[2].ret = <<>>
    /\ calls[3].ret = None
    /\ calls[4] = AnswerCall(user_input, "en", calls[4].ret)

\* every send operation tried so far was accepted by the transport
AllSendsOk == \A k \in DOMAIN attempts : attempts[k].ok

\* the message that carries chunk i of n when nothing fails
ChunkMessage(i, n) ==
    IF i = 1
    THEN Msg("edit", "answer", Strip(message_chunks[1]), "-", "HTML")
    ELSE Msg("reply", "answer", Header(i, n) \o message_chunks[i], "-", "HTML")

\* C17: when every send succeeds the chunks are delivered in order, each
\* exactly once: chunk 1 as an edit of the "thinking" message, without a
\* header, and each chunk i > 1 as a new message that starts with the header
\* "Part i of N"; chunk i + 1 is never sent before chunk i.
C17_OrderedDelivery ==
    (Delivering /\ AllSendsOk) =>
        LET n == Len(message_chunks)
            d == Len(attempts) - 1
        IN  /\ attempts[1].msg.kind = "thinking"
            /\ d <= n
            /\ pc = "done" => d = n
            /\ \A i \in 1..d : attempts[i + 1].msg = ChunkMessage(i, n)
            /\ sent = [k \in 1..Len(attempts) |-> attempts[k].msg]

\* the three chunks of "**z**\n\nb&c def" delivered, the second one with its
\* header
C17_Witness ==
    /\ pc = "done"
    /\ AllSendsOk
    /\ Len(message_chunks) = 3
    /\ Len(sent) = 4
    /\ sent[2].op = "edit"
    /\ sent[3].op = "reply"
    /\ sent[3].body = Header(2, 3) \o <<98>> \o AMP_ENT \o <<99, 32>>

\* the send operations that carry one chunk
ChunkAttempts == {k \in DOMAIN attempts : attempts[k].chunk > 0}

\* the last best-effort send of lines 422-423
LastResortAttempts ==
    {k \in DOMAIN attempts :
        attempts[k].msg.kind = "answer" /\ attempts[k].chunk = 0}

\* body carries no bold tag, no non-breaking space and no <...> sequence
IsPlain(body) ==
    /\ ~Contains(body, B_OPEN)
    /\ ~Contains(body, B_CLOSE)
    /\ \A i \in 1..Len(body) : body[i] # NBSP
    /\ \A i \in 1..Len(body), j \in 1..Len(body) :
          (i < j /\ body[i] = LT /\ body[j] = GT) =>
              \E k \in (i + 1)..(j - 1) : body[k] = NL

\* C18: a delivery failure is recovered chunk by chunk: when the markup send
\* of a chunk fails, the next send is the plaintext-degraded form of the same
\* chunk (bold tags stripped, non-breaking spaces turned into spaces, other
\* tag-like sequences removed), and the delivery goes on with the following
\* chunks in markup form; only when a plaintext send fails too does the
\* delivery stop, with one last best-effort plaintext send, which is dropped
\* silently if it fails.
C18_PerChunkRecovery ==
    Delivering =>
        LET n == Len(message_chunks)
            last == Len(attempts)
        IN  /\ \A k \in ChunkAttempts :
                  LET a == attempts[k] IN
                  /\ (a.msg.mode = "HTML" /\ ~a.ok) =>
                        IF k = last THEN pc = "send_plain"
                        ELSE /\ attempts[k + 1].chunk = a.chunk
                             /\ attempts[k + 1].msg.op = a.msg.op
                             /\ attempts[k + 1].msg.mode = "plain"
                             /\ attempts[k + 1].msg.body =
                                   strip_html_tags_for_plaintext(a.msg.body)
                             /\ IsPlain(attempts[k + 1].msg.body)
                  /\ a.ok =>
                        IF a.chunk = n THEN k = last /\ pc = "done"
                        ELSE IF k = last THEN pc = "send_html"
                        ELSE /\ attempts[k + 1].chunk = a.chunk + 1
                             /\ attempts[k + 1].msg.mode = "HTML"
                  /\ (a.msg.mode = "plain" /\ ~a.ok) =>
                        IF k = last THEN pc = "last_resort"
                        ELSE /\ k + 1 = last
                             /\ k + 1 \in LastResortAttempts
                             /\ attempts[last].msg.mode = "plain"
                             /\ pc = "done"
            /\ \A k \in LastResortAttempts :
                  /\ k - 1 \in ChunkAttempts
                  /\ attempts[k - 1].msg.mode = "plain"
                  /\ ~attempts[k - 1].ok
            /\ pc = "last_resort" =>
                  last \in ChunkAttempts /\ attempts[last].msg.mode = "plain"
                                        /\ ~attempts[last].ok
            /\ (pc = "done" /\ LastResortAttempts = {}) =>
                  \A i \in 1..n : \E k \in ChunkAttempts :
                      attempts[k].chunk = i /\ attempts[k].ok

\* an answer of three chunks: the markup send of the second chunk failed, its
\* plain form was delivered, and the third chunk went out as markup
C18_Witness ==
    /\ pc = "done"
    /\ Len(message_chunks) = 3
    /\ Len(attempts) = 5
    /\ attempts[3].chunk = 2 /\ ~attempts[3].ok
    /\ attempts[4].chunk = 2 /\ attempts[4].ok /\ attempts[4].msg.mode = "plain"
    /\ attempts[5].chunk = 3 /\ attempts[5].ok /\ attempts[5].msg.mode = "HTML"

-----------------------------------------------------------------------------
(* Properties of chunk_text (specification SpecChunkLoop) *)

\* the offsets below limit at which text has a double newline wholly within
\* the first limit characters
DoubleNewlines(text, limit) ==
    {i \in 0..(limit - 2) :
        i + 2 <= Len(text) /\ text[i + 1] = 10 /\ text[i + 2] = 10}

\* the offsets below limit at which text has a newline
SingleNewlines(text, limit) ==
    {i \in 0..(limit - 1) : i + 1 <= Len(text) /\ text[i + 1] = 10}

\* the last double newline within the limit, else the last single newline,
\* else the limit
ExpectedCut(text, limit) ==
    IF DoubleNewlines(text, limit) # {} THEN Max(DoubleNewlines(text, limit))
    ELSE IF SingleNewlines(text, limit) # {}
    THEN Max(SingleNewlines(text, limit))
    ELSE limit

\* C15: for every text and every limit >= 1, chunk_text terminates (each
\* iteration of its loop shortens the text left), every chunk is at most
\* limit characters long, and each cut is taken at the last double newline
\* found within the limit, else at the last single newline, else exactly at
\* the limit.
C15_ChunkCuts ==
    [][ h_pc = "loop" =>
          IF Len(h_out.text) > h_in.limit
          THEN /\ h_pc' = "loop"
               /\ Len(h_out'.text) < Len(h_out.text)
               /\ h_out'.chunks =
                     Append(h_out.chunks,
                            SubSeq(h_out.text, 1,
                                   ExpectedCut(h_out.text, h_in.limit)))
               /\ \A k \in DOMAIN h_out'.chunks :
                     Len(h_out'.chunks[k]) <= h_in.limit
          ELSE /\ h_pc' = "out"
               /\ h_out'.chunks = Append(h_out.chunks, h_out.text)
               /\ h_out'.chunks = chunk_text(h_in.text, h_in.limit)
               /\ \A k \in DOMAIN h_out'.chunks :
                     Len(h_out'.chunks[k]) <= h_in.limit ]_vars

\* a text cut once at a double newline, which a single newline follows
\* within the limit, and once at the limit
C15_Witness ==
    /\ h_pc = "out"
    /\ h_in.limit = 3
    /\ h_in.text = <<10, 10, 97, 97, 97, 97>>
    /\ h_out.chunks = <<<<>>, <<97, 97, 97>>, <<97>>>>

-----------------------------------------------------------------------------
(* No part of the answer delivered twice (specification Spec) *)

\* what chunk i shows the user, in markup or in plain form: its text without
\* tags and surrounding whitespace
Content(i) == Strip(strip_html_tags_for_plaintext(message_chunks[i]))

\* the part of the answer a send operation carries: the content of its chunk
\* (the part header is not part of the answer), or its whole body when it
\* carries no single chunk
AnswerPart(a) == IF a.chunk > 0 THEN Content(a.chunk) ELSE a.msg.body

\* C21: during the delivery of one answer no part of it is sent twice:
\* whatever sends fail, once a chunk has been delivered, in markup or in
\* plain form, its content is in no later message of the cycle.
C21_NoPartSentTwice ==
    Delivering =>
        \A k \in ChunkAttempts, later \in DOMAIN attempts :
            ( /\ k < later
              /\ attempts[k].ok
              /\ Content(attempts[k].chunk) # <<>>
              /\ attempts[later].ok
              /\ attempts[later].msg.kind = "answer" )
            => ~Contains(AnswerPart(attempts[later]),
                         Content(attempts[k].chunk))

=============================================================================
